---- MODULE Spec2Model ----
(***************************************************************************)
(* Model of arviz's low level converters (arviz/data/base.py:              *)
(* generate_dims_coords, numpy_to_data_array, dict_to_dataset) and of the  *)
(* model comparison plot (arviz/plots/compareplot.py with its bokeh        *)
(* backend).                                                               *)
(*                                                                         *)
(* Python objects that can be aliased (the lists of dimension names and the *)
(* coordinate dicts) live in a small heap and are passed by reference, so   *)
(* that copying and in-place mutation are distinguishable.  A reference is  *)
(* an index into the heap, 0 is None.  A dict is a sequence of              *)
(* [k |-> key, v |-> value] entries in insertion order.  An array is        *)
(* represented by its shape: the converters never read its values.          *)
(***************************************************************************)
EXTENDS Integers, Sequences, FiniteSets, TLC

\* ------------------------------------------------------------------ bounds
MaxLen == 2        \* longest axis of an array, longest coordinate of a caller
MaxFree == 1       \* most axes after (chain, draw) of an array to label
MaxShape == 2      \* longest shape handed to generate_dims_coords directly
MaxDims == 2       \* longest dims list a caller holds
MaxModels == 3     \* most rows of a comparison table

\* ------------------------------------------------------------ python values
None == "<None>"   \* None as an entry of a list of dimension names

NoRef == 0         \* None as an argument (a reference to no object)

InList(x, lst) == \E i \in 1..Len(lst) : lst[i] = x

DictKeys(d) == {d[i].k : i \in 1..Len(d)}

DictHas(d, key) == \E i \in 1..Len(d) : d[i].k = key

DictGet(d, key) == d[CHOOSE i \in 1..Len(d) : d[i].k = key].v

DictSet(d, key, val) ==
    IF DictHas(d, key)
    THEN [i \in 1..Len(d) |-> IF d[i].k = key THEN [k |-> key, v |-> val] ELSE d[i]]
    ELSE Append(d, [k |-> key, v |-> val])

\* an optional argument: <<>> is None, <<v>> is the object v
Opt(S) == {<<>>} \cup {<<v>> : v \in S}

SeqsUpTo(S, n) == UNION {[1..m -> S] : m \in 0..n}

\* ------------------------------------------------------------------- heap
AllocDims(h, lst) == [h EXCEPT !.dims = Append(@, lst)]

AllocCoords(h, d) == [h EXCEPT !.coords = Append(@, d)]

DerefDims(h, ref) == h.dims[ref]

DerefCoords(h, ref) == h.coords[ref]

\* a mutant of deepcopy: the same object is handed back
AliasCoords(h, ref) == [heap |-> h, ref |-> ref]

\* coords = deepcopy(coords)
DeepcopyCoords(h, ref) ==
    [heap |-> AllocCoords(h, DerefCoords(h, ref)), ref |-> Len(h.coords) + 1]

\* dims = deepcopy(dims)
DeepcopyDims(h, ref) ==
    [heap |-> AllocDims(h, DerefDims(h, ref)), ref |-> Len(h.dims) + 1]

\* ---------------------------------------------------------------- arviz.utils
\* utils.arange(n): the integers 0 .. n-1
arange(n) == [i \in 1..n |-> i - 1]

\* utils.two_de(ary): a 1d array is interpreted as draws of one chain (it gets a
\* leading axis of size 1)
two_de(ary) == IF Len(ary) = 1 THEN <<1>> \o ary ELSE ary

\* ------------------------------------------------------ generate_dims_coords
\* "{var_name}_dim_{idx}".format(var_name=var_name, idx=idx)
dim_name_fmt(var_name, idx) == var_name \o "_dim_" \o ToString(idx)

\* the warning of lines 73-86: more non-default dims than axes
more_dims_warning(dims, default_dims, shape) ==
    Cardinality({i \in 1..Len(dims) : ~InList(dims[i], default_dims)}) > Len(shape)

\* a mutant of gdc_step: the default range replaces a coordinate of the caller
gdc_step_overwrite(h, dref, cref, shape, var_name, idx) ==
    LET dims0 == DerefDims(h, dref)
        gen   == dim_name_fmt(var_name, idx)
        dims1 == IF Len(dims0) < idx + 1 THEN Append(dims0, gen)
                 ELSE IF dims0[idx + 1] = None THEN [dims0 EXCEPT ![idx + 1] = gen]
                 ELSE dims0
    IN  [dims |-> [h.dims EXCEPT ![dref] = dims1],
         coords |-> [h.coords EXCEPT ![cref] =
                        DictSet(@, dims1[idx + 1], arange(shape[idx + 1]))]]

\* one iteration of the loop of lines 93-102, on the objects dref and cref
gdc_step(h, dref, cref, shape, var_name, idx) ==
    LET dim_len == shape[idx + 1]
        dims0   == DerefDims(h, dref)
        absent  == (Len(dims0) < idx + 1) \/ (dims0[idx + 1] = None)
        gen     == dim_name_fmt(var_name, idx)
        dims1   == IF ~absent THEN dims0
                   ELSE IF Len(dims0) < idx + 1 THEN Append(dims0, gen)
                   ELSE [dims0 EXCEPT ![idx + 1] = gen]
        dim_name == dims1[idx + 1]
        coords0 == DerefCoords(h, cref)
        coords1 == IF DictHas(coords0, dim_name) THEN coords0
                   ELSE DictSet(coords0, dim_name, arange(dim_len))
    IN  [dims |-> [h.dims EXCEPT ![dref] = dims1],
         coords |-> [h.coords EXCEPT ![cref] = coords1]]

RECURSIVE gdc_loop(_, _, _, _, _, _)
gdc_loop(h, dref, cref, shape, var_name, idx) ==
    IF idx >= Len(shape) THEN h
    ELSE gdc_loop(gdc_step(h, dref, cref, shape, var_name, idx),
                  dref, cref, shape, var_name, idx + 1)

\* a mutant of filter_coords: nothing is dropped
keep_coords(coords, dims) == coords

\* line 103: a new dict with the entries whose key is one of dims
filter_coords(coords, dims) == SelectSeq(coords, LAMBDA e : InList(e.k, dims))

\* generate_dims_coords(shape, var_name, dims, coords, default_dims); dims,
\* coords and default_dims are references.  Returns the heap after the call,
\* references to the returned dims and coords, and the warnings emitted.
generate_dims_coords(h0, shape, var_name, dimsArg, coordsArg, defaultArg) ==
    LET default_dims == IF defaultArg = NoRef THEN <<>> ELSE DerefDims(h0, defaultArg)
        h1    == IF dimsArg = NoRef THEN AllocDims(h0, <<>>) ELSE h0
        dref1 == IF dimsArg = NoRef THEN Len(h1.dims) ELSE dimsArg
        warns == IF more_dims_warning(DerefDims(h1, dref1), default_dims, shape)
                 THEN <<"more_dims">> ELSE <<>>
        h2    == IF coordsArg = NoRef THEN AllocCoords(h1, <<>>) ELSE h1
        cref2 == IF coordsArg = NoRef THEN Len(h2.coords) ELSE coordsArg
        cc    == DeepcopyCoords(h2, cref2)
        dc    == DeepcopyDims(cc.heap, dref1)
        h3    == gdc_loop(dc.heap, dc.ref, cc.ref, shape, var_name, 0)
        h4    == AllocCoords(h3, filter_coords(DerefCoords(h3, cc.ref), DerefDims(h3, dc.ref)))
    IN  [heap |-> h4, dims |-> dc.ref, coords |-> Len(h4.coords), warnings |-> warns]

\* ------------------------------------------------------- numpy_to_data_array
\* xr.DataArray(ary, coords=coords, dims=dims) with coords holding one index per
\* name of dims: the number of dims must be the rank of the data, and every
\* index must be as long as the axis its name is bound to, sizes being
\* dict(zip(dims, shape)).
DataArray(shape, coords, dims) ==
    IF Len(dims) # Len(shape) THEN "ValueError"
    ELSE LET size(name) ==
                 shape[CHOOSE i \in 1..Len(dims) :
                         dims[i] = name /\ \A j \in (i + 1)..Len(dims) : dims[j] # name]
         IN  IF \A i \in 1..Len(coords) : Len(coords[i].v) = size(coords[i].k)
             THEN "ok" ELSE "ValueError"

\* line 164: {key: xr.IndexVariable((key,), data=coords[key]) for key in dims}
RECURSIVE index_coords(_, _, _)
index_coords(coords, dims, i) ==
    IF i > Len(dims) THEN <<>>
    ELSE LET rest == index_coords(coords, dims, i + 1)
             key  == dims[i]
         IN  IF \E j \in 1..(i - 1) : dims[j] = key
             THEN rest
             ELSE <<[k |-> key, v |-> DictGet(coords, key)]>> \o rest

\* a mutant of prepend_default_dims: the default dims are put in front even
\* when the dims have them
prepend_always(dims) == <<"chain", "draw">> \o dims

\* lines 153-156: the default dims are put in front, "draw" first, then "chain"
prepend_default_dims(dims) ==
    LET d1 == IF ~InList("draw", dims) THEN <<"draw">> \o dims ELSE dims
    IN  IF ~InList("chain", d1) THEN <<"chain">> \o d1 ELSE d1

\* a mutant of more_chains_warning: as many chains as draws warns too
more_chains_or_equal(n_chains, n_samples) == n_chains >= n_samples

\* lines 139-146: the condition of the "more chains than draws" warning
more_chains_warning(n_chains, n_samples) == n_chains > n_samples

\* lines 158-161: the default coordinate of key, unless coords has one
set_default(coords, key, n) ==
    IF ~DictHas(coords, key) THEN DictSet(coords, key, arange(n)) ELSE coords

\* lines 164-165: the indexes in the order of dims, then the labeled array
n2da_build(heap, full, dims, coords, warns) ==
    IF \E i \in 1..Len(dims) : ~DictHas(coords, dims[i])
    THEN [status |-> "KeyError", dims |-> <<>>, coords |-> <<>>,
          warnings |-> warns, heap |-> heap]
    ELSE IF DataArray(full, index_coords(coords, dims, 1), dims) = "ok"
    THEN [status |-> "ok", dims |-> dims, coords |-> index_coords(coords, dims, 1),
          warnings |-> warns, heap |-> heap]
    ELSE [status |-> "ValueError", dims |-> <<>>, coords |-> <<>>,
          warnings |-> warns, heap |-> heap]

\* lines 152-165 on the outcome g of generate_dims_coords
n2da_label(full, g, warns) ==
    n2da_build([g.heap EXCEPT !.coords[g.coords] =
                    set_default(set_default(@, "chain", full[1]), "draw", full[2])],
               full,
               prepend_default_dims(DerefDims(g.heap, g.dims)),
               set_default(set_default(DerefCoords(g.heap, g.coords), "chain", full[1]),
                           "draw", full[2]),
               warns \o g.warnings)

\* lines 136-150 on the array made two-dimensional
n2da_infer(h1, full, var_name, coordsArg, dimsArg) ==
    n2da_label(full,
               generate_dims_coords(h1, SubSeq(full, 3, Len(full)), var_name,
                                    dimsArg, coordsArg, Len(h1.dims)),
               IF more_chains_warning(full[1], full[2]) THEN <<"more_chains">> ELSE <<>>)

\* numpy_to_data_array(ary, var_name=, coords=, dims=); ary is the shape of the
\* array, coords and dims are references.
numpy_to_data_array(h0, ary, var_name, coordsArg, dimsArg) ==
    n2da_infer(AllocDims(h0, <<"chain", "draw">>), two_de(ary), var_name,
               coordsArg, dimsArg)

\* ------------------------------------------------------------ dict_to_dataset
\* a mutant of dims_get: the dims of the variable are never looked up
dims_get_none(dimsMap, key) == NoRef

\* dims.get(key): the list registered for key, or None
dims_get(dimsMap, key) == IF DictHas(dimsMap, key) THEN DictGet(dimsMap, key) ELSE NoRef

\* the loop of lines 198-201 from item i on; an exception of
\* numpy_to_data_array ends the call.  data_vars is the dict built so far.
RECURSIVE d2d_loop(_, _, _, _, _, _)
d2d_loop(h, data, coordsArg, dimsMap, data_vars, i) ==
    IF i > Len(data) THEN [status |-> "ok", data_vars |-> data_vars, heap |-> h]
    ELSE LET key == data[i].k
             r   == numpy_to_data_array(h, data[i].v, key, coordsArg, dims_get(dimsMap, key))
         IN  IF r.status # "ok"
             THEN [status |-> r.status, data_vars |-> <<>>, heap |-> r.heap]
             ELSE d2d_loop(r.heap, data, coordsArg, dimsMap,
                           DictSet(data_vars, key, [dims |-> r.dims, coords |-> r.coords]),
                           i + 1)

\* dict_to_dataset(data, coords=, dims=): data is a dict of arrays, dims is None
\* (hasDims FALSE) or a dict of references to lists.  The outcome holds the
\* data_vars handed to xr.Dataset.
dict_to_dataset(h0, data, coordsArg, hasDims, dimsMap) ==
    d2d_loop(h0, data, coordsArg, IF hasDims THEN dimsMap ELSE <<>>, <<>>, 1)

\* --------------------------------------------------------------- plot_compare
\* str.lower() on the column names of a comparison table
Lower(c) ==
    CASE c = "WAIC" -> "waic"
      [] c = "Waic" -> "waic"
      [] c = "LOO"  -> "loo"
      [] OTHER      -> c

\* a mutant of find_criterion: "loo" is looked for first
find_criterion_loo_first(columns) ==
    LET column_index == {Lower(c) : c \in columns}
    IN  IF "loo" \in column_index THEN "loo"
        ELSE IF "waic" \in column_index THEN "waic"
        ELSE None

\* lines 95-104: the first of ["waic", "loo"] among the lower-cased columns,
\* None when the for loop runs to its else
find_criterion(columns) ==
    LET column_index == {Lower(c) : c \in columns}
    IN  IF "waic" \in column_index THEN "waic"
        ELSE IF "loo" \in column_index THEN "loo"
        ELSE None

\* comp_df.sort_values(by="rank"): the rows in ascending rank
RECURSIVE sort_by_rank(_)
sort_by_rank(rows) ==
    IF rows = <<>> THEN <<>>
    ELSE LET m == CHOOSE i \in 1..Len(rows) : \A j \in 1..Len(rows) : rows[i] <= rows[j]
         IN  <<rows[m]>> \o sort_by_rank(SubSeq(rows, 1, m - 1) \o SubSeq(rows, m + 1, Len(rows)))

\* what a renderer draws, glyph by glyph, until a column it reads is missing
RECURSIVE draw(_, _, _)
draw(columns, steps, i) ==
    IF i > Len(steps) THEN [status |-> "ok", drawn |-> <<>>]
    ELSE IF steps[i].needs \subseteq columns
    THEN LET rest == draw(columns, steps, i + 1)
         IN  [status |-> rest.status, drawn |-> <<steps[i].glyph>> \o rest.drawn]
    ELSE [status |-> "KeyError", drawn |-> <<>>]

\* bokeh's _compareplot: reads comp_df, adds glyphs to the figure, never writes
\* to comp_df
bokeh_compareplot(tbl, ic, plot_ic_diff, plot_standard_error, insample_dev) ==
    draw(tbl.columns,
         (IF plot_ic_diff THEN <<[glyph |-> "triangle", needs |-> {ic, "dse"}],
                                 [glyph |-> "dse_lines", needs |-> {}]>> ELSE <<>>)
         \o <<[glyph |-> "circle", needs |-> {ic}]>>
         \o (IF plot_standard_error
             THEN <<[glyph |-> "se_lines", needs |-> {ic, "se"}]>> ELSE <<>>)
         \o (IF insample_dev
             THEN <<[glyph |-> "insample_circle", needs |-> {ic, "p_" \o ic}]>> ELSE <<>>)
         \o <<[glyph |-> "vline", needs |-> {ic}]>>,
         1)

\* matplotlib's _compareplot: a consumer of the comparison table that only reads it
mpl_compareplot(tbl, ic, plot_ic_diff, plot_standard_error, insample_dev) ==
    draw(tbl.columns,
         (IF plot_ic_diff THEN <<[glyph |-> "triangle", needs |-> {ic, "dse"}]>> ELSE <<>>)
         \o (IF plot_standard_error
             THEN <<[glyph |-> "errorbar", needs |-> {ic, "se"}]>>
             ELSE <<[glyph |-> "circle", needs |-> {ic}]>>)
         \o (IF insample_dev
             THEN <<[glyph |-> "insample_circle", needs |-> {ic, "p_" \o ic}]>> ELSE <<>>)
         \o <<[glyph |-> "vline", needs |-> {ic}]>>,
         1)

\* plot_compare(comp_df, insample_dev, plot_standard_error, plot_ic_diff,
\* order_by_rank, backend=): the outcome and the table as the call leaves it
plot_compare(tbl, insample_dev, plot_standard_error, plot_ic_diff, order_by_rank, backend) ==
    LET ic == find_criterion(tbl.columns)
    IN  IF ic = None
        THEN [status |-> "ValueError", ic |-> None, renderer |-> "none",
              drawn |-> <<>>, table |-> tbl]
        ELSE IF order_by_rank /\ "rank" \notin tbl.columns
        THEN [status |-> "KeyError", ic |-> ic, renderer |-> "none",
              drawn |-> <<>>, table |-> tbl]
        ELSE LET sorted == IF order_by_rank
                           THEN [tbl EXCEPT !.rows = sort_by_rank(tbl.rows)] ELSE tbl
                 r == IF backend = "bokeh"
                      THEN bokeh_compareplot(sorted, ic, plot_ic_diff,
                                             plot_standard_error, insample_dev)
                      ELSE mpl_compareplot(sorted, ic, plot_ic_diff,
                                           plot_standard_error, insample_dev)
             IN  [status |-> r.status, ic |-> ic, renderer |-> backend,
                  drawn |-> r.drawn, table |-> sorted]

\* ------------------------------------------------------------------ inputs
DimNames == {"chain", "draw", "x", None}

CoordKeys == <<"chain", "draw", "x">>

\* a coordinate a caller supplies: n labels of their own
Labels(n) == [i \in 1..n |-> 100 + i]

\* the lengths of the axes of an array and of the coordinates a caller supplies
Lens == {MaxLen - 1, MaxLen}

\* the coords dicts a caller may hold: every key absent or labelled
RECURSIVE CallerCoords(_)
CallerCoords(i) ==
    IF i > Len(CoordKeys) THEN {<<>>}
    ELSE LET rest == CallerCoords(i + 1)
         IN  rest \cup {<<[k |-> CoordKeys[i], v |-> Labels(n)]>> \o r :
                            n \in Lens, r \in rest}

\* the shapes of the arrays handed to numpy_to_data_array
Arrays == UNION {[1..r -> Lens] : r \in 1..(MaxFree + 2)}

\* the shapes handed to generate_dims_coords
Shapes == SeqsUpTo(Lens, MaxShape)

VarNames == {"data", "mu"}

\* the variables of a dataset share their chains and draws; their free axes
\* are of the longest length
DataKeys == {"mu", "tau"}

DataArrays == {<<MaxLen - 1, MaxLen>> \o f : f \in SeqsUpTo({MaxLen}, MaxFree)}

\* the data dicts: distinct keys in any insertion order
Datas ==
    {<<>>}
    \cup {<<[k |-> a, v |-> x]>> : a \in DataKeys, x \in DataArrays}
    \cup {<<[k |-> ab[1], v |-> x], [k |-> ab[2], v |-> y]>> :
              ab \in {p \in DataKeys \X DataKeys : p[1] # p[2]},
              x \in DataArrays, y \in DataArrays}

\* the comparison tables: the rows are the ranks, in any order
Perms(n) == {p \in [1..n -> 0..(n - 1)] : \A i, j \in 1..n : p[i] = p[j] => i = j}

BaseColumns == {"se", "p_waic", "p_loo"}

Tables ==
    {[columns |-> BaseColumns \cup crit \cup extra, rows |-> rows] :
        crit \in SUBSET {"waic", "loo", "WAIC"},
        extra \in SUBSET {"rank", "dse"},
        rows \in UNION {Perms(n) : n \in 1..MaxModels}}

DefaultTable == [columns |-> BaseColumns \cup {"waic", "rank", "dse"}, rows |-> <<0>>]

\* ------------------------------------------------------------------- state
VARIABLES
    pc,            \* "idle", or "returned" when the outcome of a call is held
    callerDims,    \* the dims list the caller holds (optional)
    callerCoords,  \* the coords dict the caller holds (optional)
    table,         \* the comparison table the caller holds
    last,          \* the last generate_dims_coords or numpy_to_data_array call
    dataset,       \* the last dict_to_dataset call
    plot           \* the last plot_compare call

vars == <<pc, callerDims, callerCoords, table, last, dataset, plot>>

NoCall == [op |-> "none", shape |-> <<>>, var_name |-> "", default |-> <<>>,
           dimsArg |-> <<>>, coordsArg |-> <<>>, dimsAfter |-> <<>>, coordsAfter |-> <<>>,
           status |-> "none", dims |-> <<>>, coords |-> <<>>, warnings |-> <<>>]

NoDataset == [op |-> "none", data |-> <<>>, hasDims |-> FALSE, dimsKeys |-> {},
              dimsArg |-> <<>>, coordsArg |-> <<>>, dimsAfter |-> <<>>, coordsAfter |-> <<>>,
              status |-> "none", data_vars |-> <<>>]

NoPlot == [op |-> "none", before |-> DefaultTable, order_by_rank |-> FALSE,
           status |-> "none", ic |-> None, renderer |-> "none", drawn |-> <<>>]

NoOutcome ==
    /\ pc = "idle"
    /\ last = NoCall
    /\ dataset = NoDataset
    /\ plot = NoPlot

\* a caller of the converters, with any dims and coords
InitLabel ==
    /\ callerDims \in Opt(SeqsUpTo(DimNames, MaxDims))
    /\ callerCoords \in Opt(CallerCoords(1))
    /\ table = DefaultTable
    /\ NoOutcome

\* a caller assembling datasets: the dims name at most the free axes
InitDataset ==
    /\ callerDims \in Opt(SeqsUpTo(DimNames, MaxFree))
    /\ callerCoords \in Opt(CallerCoords(1))
    /\ table = DefaultTable
    /\ NoOutcome

\* a caller plotting a comparison table
InitPlot ==
    /\ callerDims = <<>>
    /\ callerCoords = <<>>
    /\ table \in Tables
    /\ NoOutcome

Init == InitLabel \/ InitPlot

\* the heap a call starts from: the caller's objects
CallerHeap == [dims |-> callerDims, coords |-> callerCoords]

RefOf(opt) == IF opt = <<>> THEN NoRef ELSE 1

\* the caller's objects as the call leaves them
Leaves(h) ==
    /\ callerDims' = SubSeq(h.dims, 1, Len(callerDims))
    /\ callerCoords' = SubSeq(h.coords, 1, Len(callerCoords))

\* generate_dims_coords(shape, var_name, dims=callerDims, coords=callerCoords,
\*                      default_dims=default)
GenerateDimsCoords ==
    /\ pc = "idle"
    /\ \E shape \in Shapes, var_name \in VarNames,
          default \in {<<>>, <<<<"chain", "draw">>>>} :
        LET h0 == [CallerHeap EXCEPT !.dims = @ \o default]
            r  == generate_dims_coords(h0, shape, var_name, RefOf(callerDims),
                      RefOf(callerCoords),
                      IF default = <<>> THEN NoRef ELSE Len(h0.dims))
        IN  /\ last' = [op |-> "generate_dims_coords", shape |-> shape,
                        var_name |-> var_name, default |-> default,
                        dimsArg |-> callerDims, coordsArg |-> callerCoords,
                        dimsAfter |-> SubSeq(r.heap.dims, 1, Len(callerDims)),
                        coordsAfter |-> SubSeq(r.heap.coords, 1, Len(callerCoords)),
                        status |-> "ok",
                        dims |-> DerefDims(r.heap, r.dims),
                        coords |-> DerefCoords(r.heap, r.coords),
                        warnings |-> r.warnings]
            /\ Leaves(r.heap)
    /\ pc' = "returned"
    /\ UNCHANGED <<table, dataset, plot>>

\* numpy_to_data_array(ary, coords=callerCoords, dims=callerDims)
NumpyToDataArray ==
    /\ pc = "idle"
    /\ \E ary \in Arrays :
        LET r == numpy_to_data_array(CallerHeap, ary, "data",
                                     RefOf(callerCoords), RefOf(callerDims))
        IN  /\ last' = [op |-> "numpy_to_data_array", shape |-> ary,
                        var_name |-> "data", default |-> <<>>,
                        dimsArg |-> callerDims, coordsArg |-> callerCoords,
                        dimsAfter |-> SubSeq(r.heap.dims, 1, Len(callerDims)),
                        coordsAfter |-> SubSeq(r.heap.coords, 1, Len(callerCoords)),
                        status |-> r.status, dims |-> r.dims, coords |-> r.coords,
                        warnings |-> r.warnings]
            /\ Leaves(r.heap)
    /\ pc' = "returned"
    /\ UNCHANGED <<table, dataset, plot>>

\* numpy_to_data_array on the raw data of the labeled array just returned, with
\* the dims and the coordinate values of that labeled array
Relabel ==
    /\ pc = "returned"
    /\ last.op = "numpy_to_data_array"
    /\ last.status = "ok"
    /\ LET h0 == [dims |-> <<last.dims>>, coords |-> <<last.coords>>]
           r  == numpy_to_data_array(h0, last.shape, last.var_name, 1, 1)
       IN  last' = [op |-> "relabel", shape |-> last.shape,
                    var_name |-> last.var_name, default |-> <<>>,
                    dimsArg |-> <<last.dims>>, coordsArg |-> <<last.coords>>,
                    dimsAfter |-> SubSeq(r.heap.dims, 1, 1),
                    coordsAfter |-> SubSeq(r.heap.coords, 1, 1),
                    status |-> r.status, dims |-> r.dims, coords |-> r.coords,
                    warnings |-> r.warnings]
    /\ UNCHANGED <<pc, callerDims, callerCoords, table, dataset, plot>>

\* dict_to_dataset(data, coords=callerCoords, dims=None or {key: callerDims})
DictToDataset ==
    /\ pc = "idle"
    /\ \E data \in Datas, hasDims \in BOOLEAN, dimsKeys \in SUBSET DataKeys :
        /\ ~hasDims => dimsKeys = {}
        /\ dimsKeys # {} => callerDims # <<>>
        /\ LET order   == <<"mu", "tau">>
               dimsMap == SelectSeq([i \in 1..2 |-> [k |-> order[i], v |-> 1]],
                                    LAMBDA e : e.k \in dimsKeys)
               r == dict_to_dataset(CallerHeap, data, RefOf(callerCoords), hasDims, dimsMap)
           IN  /\ dataset' = [op |-> "dict_to_dataset", data |-> data,
                              hasDims |-> hasDims, dimsKeys |-> dimsKeys,
                              dimsArg |-> callerDims, coordsArg |-> callerCoords,
                              dimsAfter |-> SubSeq(r.heap.dims, 1, Len(callerDims)),
                              coordsAfter |-> SubSeq(r.heap.coords, 1, Len(callerCoords)),
                              status |-> r.status, data_vars |-> r.data_vars]
               /\ Leaves(r.heap)
    /\ pc' = "returned"
    /\ UNCHANGED <<table, last, plot>>

\* plot_compare(table, ...): the table is sorted in place
PlotCompare ==
    /\ pc = "idle"
    /\ \E insample_dev \in BOOLEAN, plot_standard_error \in BOOLEAN,
          plot_ic_diff \in BOOLEAN, order_by_rank \in BOOLEAN,
          backend \in {"bokeh", "matplotlib"} :
        LET r == plot_compare(table, insample_dev, plot_standard_error, plot_ic_diff,
                              order_by_rank, backend)
        IN  /\ plot' = [op |-> "plot_compare", before |-> table,
                        order_by_rank |-> order_by_rank,
                        status |-> r.status, ic |-> r.ic, renderer |-> r.renderer,
                        drawn |-> r.drawn]
            /\ table' = r.table
    /\ pc' = "returned"
    /\ UNCHANGED <<callerDims, callerCoords, last, dataset>>

\* the caller drops the outcome and is ready for the next call
Discard ==
    /\ pc = "returned"
    /\ pc' = "idle"
    /\ last' = NoCall
    /\ dataset' = NoDataset
    /\ plot' = NoPlot
    /\ UNCHANGED <<callerDims, callerCoords, table>>

Next ==
    \/ GenerateDimsCoords
    \/ NumpyToDataArray
    \/ Relabel
    \/ DictToDataset
    \/ PlotCompare
    \/ Discard

Spec == Init /\ [][Next]_vars

\* calls of generate_dims_coords alone
NextGdc == GenerateDimsCoords \/ Discard

SpecGdc == InitLabel /\ [][NextGdc]_vars

\* calls of numpy_to_data_array, on raw data and on its own output
NextLabel == NumpyToDataArray \/ Relabel \/ Discard

SpecLabel == InitLabel /\ [][NextLabel]_vars

\* the three converters, called in any order
NextDataset ==
    \/ GenerateDimsCoords
    \/ NumpyToDataArray
    \/ Relabel
    \/ DictToDataset
    \/ Discard

SpecDataset == InitDataset /\ [][NextDataset]_vars

\* calls of plot_compare
NextPlot == PlotCompare \/ Discard

SpecPlot == InitPlot /\ [][NextPlot]_vars

\* ------------------------------------------------------------------ claims
Names(lst) == {lst[i] : i \in 1..Len(lst)}

IsGdc == pc = "returned" /\ last.op = "generate_dims_coords"

IsN2da == pc = "returned" /\ last.op \in {"numpy_to_data_array", "relabel"}

Returned == last.status = "ok"

\* the caller's arguments of the last call, None read as empty
ArgDims == IF last.dimsArg = <<>> THEN <<>> ELSE last.dimsArg[1]

ArgCoords == IF last.coordsArg = <<>> THEN <<>> ELSE last.coordsArg[1]

\* (chain, draw, free axes) of the array of the last numpy_to_data_array call
FullShape == two_de(last.shape)

\* C1: a coordinate the caller supplies for "chain" or "draw" is the one
\* attached to the labeled array numpy_to_data_array returns, and the default
\* range 0..n-1 is used only when the caller supplied none.
C1_CallerChainDrawCoordKept ==
    (IsN2da /\ Returned) =>
        /\ \A key \in {"chain", "draw"} :
              DictHas(ArgCoords, key) =>
                  DictGet(last.coords, key) = DictGet(ArgCoords, key)
        /\ ~DictHas(ArgCoords, "chain") =>
              DictGet(last.coords, "chain") = arange(FullShape[1])
        /\ ~DictHas(ArgCoords, "draw") =>
              DictGet(last.coords, "draw") = arange(FullShape[2])

\* C2: when the caller supplies for chain, for draw or for a free dimension a
\* coordinate whose length differs from the length of the axis it names,
\* numpy_to_data_array ends in an error and returns nothing.
C2_WrongLengthCoordFails ==
    IsN2da =>
        LET free_only == ~InList("chain", ArgDims) /\ ~InList("draw", ArgDims)
            bad_chain == /\ free_only /\ DictHas(ArgCoords, "chain")
                         /\ Len(DictGet(ArgCoords, "chain")) # FullShape[1]
            bad_draw  == /\ free_only /\ DictHas(ArgCoords, "draw")
                         /\ Len(DictGet(ArgCoords, "draw")) # FullShape[2]
            bad_free  == \E i \in 1..Len(ArgDims) :
                            /\ free_only /\ i + 2 <= Len(FullShape)
                            /\ DictHas(ArgCoords, ArgDims[i])
                            /\ Len(DictGet(ArgCoords, ArgDims[i])) # FullShape[i + 2]
        IN  (bad_chain \/ bad_draw \/ bad_free) => ~Returned

\* C3 as stated: generate_dims_coords returns a dims list of length len(shape)
\* and a coords mapping whose keys are exactly the names of the returned dims.
C3_DimsLenIsRankAndCoordsKeysAreDims ==
    IsGdc =>
        /\ Len(last.dims) = Len(last.shape)
        /\ DictKeys(last.coords) = Names(last.dims)

Max(a, b) == IF a > b THEN a ELSE b

\* C3 amended: the returned dims list has length max(len(dims), len(shape)),
\* hence len(shape) when the caller passed no more dims than axes; every key of
\* the returned coords is a name of the returned dims (no leftover, no key
\* twice), every name of an axis idx < len(shape) has an entry, and a name
\* beyond the axes has one only if the caller's coords had it.
C3_DimsCoverAxesAndCoordsHaveNoLeftover ==
    IsGdc =>
        /\ Len(last.dims) = Max(Len(ArgDims), Len(last.shape))
        /\ Cardinality(DictKeys(last.coords)) = Len(last.coords)
        /\ DictKeys(last.coords) =
              {last.dims[i] : i \in 1..Len(last.shape)}
                  \cup (DictKeys(ArgCoords) \cap Names(last.dims))
        /\ Len(ArgDims) <= Len(last.shape) =>
              /\ Len(last.dims) = Len(last.shape)
              /\ DictKeys(last.coords) = Names(last.dims)

\* C3 witness: a call with more dims than axes, a default dim among them and a
\* caller coordinate that is no dim at all
C3_Witness ==
    /\ IsGdc
    /\ Len(ArgDims) > Len(last.shape)
    /\ InList("chain", ArgDims)
    /\ DictKeys(ArgCoords) \ Names(last.dims) # {}
    /\ Len(last.shape) > 0

\* C4: whenever numpy_to_data_array returns, the dims of the result are
\* "chain", "draw", then the free dimensions in their inferred order.
C4_ChainDrawFirst ==
    (IsN2da /\ Returned) =>
        /\ Len(last.dims) = Len(FullShape)
        /\ last.dims[1] = "chain"
        /\ last.dims[2] = "draw"
        /\ \A i \in 3..Len(last.dims) : last.dims[i] \notin {"chain", "draw"}

\* the name generate_dims_coords is to return for axis idx (0-based)
ExpectedName(idx) ==
    IF idx + 1 <= Len(ArgDims) /\ ArgDims[idx + 1] # None
    THEN ArgDims[idx + 1]
    ELSE last.var_name \o "_dim_" \o ToString(idx)

\* C5 as stated: for every axis idx < len(shape), generate_dims_coords returns
\* the caller's name at idx if there is a non-null one and "<var_name>_dim_<idx>"
\* otherwise, with the caller's coordinate for that name if there is one and
\* 0..shape[idx]-1 otherwise.
C5_AxisNameAndCoord ==
    IsGdc =>
        \A i \in 1..Len(last.shape) :
            /\ last.dims[i] = ExpectedName(i - 1)
            /\ DictHas(last.coords, last.dims[i])
            /\ DictGet(last.coords, last.dims[i]) =
                  IF DictHas(ArgCoords, last.dims[i])
                  THEN DictGet(ArgCoords, last.dims[i])
                  ELSE arange(last.shape[i])

\* C5 amended: as stated, except that a name without a caller coordinate gets
\* 0..shape[j]-1 for the first axis j that bears that name (j = idx unless the
\* name is repeated in the dims).
C5_AxisNameAndFirstAxisCoord ==
    IsGdc =>
        \A i \in 1..Len(last.shape) :
            LET j == CHOOSE m \in 1..i :
                        /\ last.dims[m] = last.dims[i]
                        /\ \A n \in 1..(m - 1) : last.dims[n] # last.dims[i]
            IN  /\ last.dims[i] = ExpectedName(i - 1)
                /\ DictHas(last.coords, last.dims[i])
                /\ DictGet(last.coords, last.dims[i]) =
                      IF DictHas(ArgCoords, last.dims[i])
                      THEN DictGet(ArgCoords, last.dims[i])
                      ELSE arange(last.shape[j])

\* C5 witness: a null entry replaced by the generated name, and a caller name
\* repeated on two axes of different length with no caller coordinate
C5_Witness ==
    /\ IsGdc
    /\ Len(last.shape) = 2
    /\ last.shape[1] # last.shape[2]
    /\ \/ /\ ArgDims = <<None, "x">> /\ DictHas(ArgCoords, "x")
          /\ last.dims = <<"mu_dim_0", "x">>
          /\ last.var_name = "mu"
       \/ /\ ArgDims = <<"x", "x">> /\ ~DictHas(ArgCoords, "x")
          /\ DictGet(last.coords, "x") = arange(last.shape[1])

\* C8: numpy_to_data_array warns of more chains than draws exactly when
\* n_chains > n_samples, and the warning is not fatal: with no dims and no
\* coords the call returns dims (chain, draw, generated names) with the default
\* coordinates of length n_chains and n_samples.
C8_MoreChainsWarningNotFatal ==
    IsN2da =>
        /\ InList("more_chains", last.warnings) <=> FullShape[1] > FullShape[2]
        /\ (last.dimsArg = <<>> /\ last.coordsArg = <<>>) =>
              /\ Returned
              /\ last.dims = <<"chain", "draw">> \o
                    [i \in 1..(Len(FullShape) - 2) |->
                        last.var_name \o "_dim_" \o ToString(i - 1)]
              /\ Len(last.coords) = Len(last.dims)
              /\ \A i \in 1..Len(last.dims) :
                    /\ last.coords[i].k = last.dims[i]
                    /\ last.coords[i].v = arange(FullShape[i])

\* C8 witness: more chains than draws, no overrides, a labeled array returned
C8_Witness ==
    /\ IsN2da /\ Returned
    /\ last.dimsArg = <<>> /\ last.coordsArg = <<>>
    /\ FullShape[1] > FullShape[2]
    /\ InList("more_chains", last.warnings)
    /\ Len(FullShape) > 2

\* C6: every call leaves the caller's dims list and coords mapping as they
\* were (same keys, same entries, same order), whether it returns or fails.
C6_CallerArgsUnchanged ==
    /\ last.op # "none" =>
          /\ last.dimsAfter = last.dimsArg
          /\ last.coordsAfter = last.coordsArg
    /\ dataset.op # "none" =>
          /\ dataset.dimsAfter = dataset.dimsArg
          /\ dataset.coordsAfter = dataset.coordsArg
    /\ pc = "returned" =>
          /\ last.op \in {"generate_dims_coords", "numpy_to_data_array"} =>
                (callerDims = last.dimsArg /\ callerCoords = last.coordsArg)
          /\ dataset.op # "none" =>
                (callerDims = dataset.dimsArg /\ callerCoords = dataset.coordsArg)

\* C6 witness: a dataset of two variables labeled against the caller's coords
\* and, for one of them, the caller's dims, with generated coordinates added
C6_Witness ==
    /\ dataset.op = "dict_to_dataset"
    /\ dataset.status = "ok"
    /\ Len(dataset.data) = 2
    /\ dataset.coordsArg # <<>>
    /\ dataset.dimsKeys = {"mu"}
    /\ \A i \in 1..2 : Len(dataset.data_vars[i].v.coords) > Len(dataset.coordsArg[1])

\* numpy_to_data_array on variable i of the data of the last dict_to_dataset
\* call, alone, with the arguments as the caller passed them
LabelAlone(i) ==
    numpy_to_data_array([dims |-> dataset.dimsArg, coords |-> dataset.coordsArg],
                        dataset.data[i].v, dataset.data[i].k,
                        RefOf(dataset.coordsArg),
                        IF dataset.hasDims /\ dataset.data[i].k \in dataset.dimsKeys
                        THEN 1 ELSE NoRef)

C9_RelabelIsIdempotent ==
    (pc = "returned" /\ last.op = "relabel") =>
        /\ last.status = "ok"
        /\ last.dims = last.dimsArg[1]
        /\ last.coords = last.coordsArg[1]

\* C9 witness: an array with a free axis labeled again with its explicit dims
\* (chain, draw, x) and the caller's labels for x
C9_Witness ==
    /\ pc = "returned" /\ last.op = "relabel"
    /\ last.dimsArg = <<<<"chain", "draw", "x">>>>
    /\ DictGet(last.coordsArg[1], "x") = Labels(MaxLen)
    /\ last.status = "ok"

IsAscending(rows) == \A i, j \in 1..Len(rows) : i < j => rows[i] <= rows[j]

\* C10: without "waic" and "loo" among the lower-cased columns plot_compare
\* raises before it sorts the table and before a renderer is invoked; with one
\* of them ("waic" first) the only change to the table is the sort by rank, made
\* only when order_by_rank is true.
C10_MissingCriterionFailsFirst ==
    plot.op = "plot_compare" =>
        LET has(c) == \E col \in plot.before.columns : Lower(col) = c
        IN  /\ (~has("waic") /\ ~has("loo")) =>
                  /\ plot.status = "ValueError"
                  /\ table = plot.before
                  /\ plot.renderer = "none"
                  /\ plot.drawn = <<>>
            /\ (has("waic") \/ has("loo")) =>
                  /\ plot.status # "ValueError"
                  /\ plot.ic = IF has("waic") THEN "waic" ELSE "loo"
                  /\ table.columns = plot.before.columns
                  /\ {table.rows[i] : i \in 1..Len(table.rows)} =
                         {plot.before.rows[i] : i \in 1..Len(plot.before.rows)}
                  /\ Len(table.rows) = Len(plot.before.rows)
                  /\ table # plot.before => (plot.order_by_rank /\ IsAscending(table.rows))
                  /\ (plot.order_by_rank /\ "rank" \in table.columns) =>
                         IsAscending(table.rows)

\* C10 witness: a table of three unsorted rows with a rank column and no
\* criterion, to be ordered by rank
C10_Witness ==
    /\ plot.op = "plot_compare"
    /\ plot.order_by_rank
    /\ "rank" \in plot.before.columns
    /\ Len(plot.before.rows) = 3
    /\ ~IsAscending(plot.before.rows)
    /\ \A col \in plot.before.columns : Lower(col) \notin {"waic", "loo"}
    /\ plot.status = "ValueError"

====
